---- MODULE Spec2Model ----
(***************************************************************************)
(* A model of biocompose: the SED-ML extraction pipeline and BioModels     *)
(* batch loader (experiments/run_biomodels.py) and the simulation engine   *)
(* adapters (processes/tellurium_process.py, sed2/processes/copasi.py).    *)
(*                                                                         *)
(* Strings the code inspects character by character (model sources, file   *)
(* paths, column names) are sequences of one-character strings, so that    *)
(* startswith, os.path.join, os.path.abspath and str.strip are computed.   *)
(***************************************************************************)
EXTENDS Integers, Sequences, FiniteSets, TLC

VARIABLES
    rs_in,      \* resolve_sbml_source_from_sedml: the arguments and the disk
    rs_out,     \* resolve_sbml_source_from_sedml: the outcome of the call
    ex_sims,    \* extract_first_uniform_time_course: the document's simulations
    ex_out,     \* extract_first_uniform_time_course: the outcome of the call
    rb_in,      \* run_biomodels: biomodel_ids and biomodel_metadata
    rb_pc,      \* run_biomodels: "loop", "done" (returned) or "raised"
    rb_i,       \* run_biomodels: index of the next identifier of the for loop
    loaded,     \* run_biomodels: the list of BiomodelLoadResult
    disk,       \* the paths on disk (files and directories)
    documents,  \* the documents written, by path
    rb_error,   \* run_biomodels: the exception that left the function
    step,       \* the Step objects, by class
    store,      \* the inputs handed to update: species_counts, species_concentrations
    mp_in,      \* model_path_resolution: the reference passed
    mp_out,     \* model_path_resolution: what the call returned
    mp_again,   \* model_path_resolution: what it returned when passed mp_out
    md_in,      \* make_biomodel_document: the arguments of the call
    md_out,     \* make_biomodel_document: the document returned
    tree,       \* Composite: the state tree of the document being run
    composite   \* Composite: its lifecycle state, the steps to invoke, the invocations

vars == <<rs_in, rs_out, ex_sims, ex_out, rb_in, rb_pc, rb_i, loaded, disk, documents,
          rb_error, step, store, mp_in, mp_out, mp_again, md_in, md_out, tree, composite>>

resolveVars == <<rs_in, rs_out>>
extractVars == <<ex_sims, ex_out>>
batchVars == <<rb_in, rb_pc, rb_i, loaded, disk, documents, rb_error>>
stepVars == <<step, store>>
pathVars == <<mp_in, mp_out, mp_again>>
documentVars == <<md_in, md_out>>
compositeVars == <<tree, composite>>

exceptResolve == <<extractVars, batchVars, stepVars, pathVars, documentVars, compositeVars>>
exceptExtract == <<resolveVars, batchVars, stepVars, pathVars, documentVars, compositeVars>>
exceptBatch == <<resolveVars, extractVars, stepVars, pathVars, documentVars, compositeVars>>
exceptSteps == <<resolveVars, extractVars, batchVars, pathVars, documentVars, compositeVars>>
exceptPath == <<resolveVars, extractVars, batchVars, stepVars, documentVars, compositeVars>>
exceptComposite == <<resolveVars, extractVars, batchVars, pathVars, documentVars>>
exceptDocument == <<resolveVars, extractVars, batchVars, stepVars, pathVars, compositeVars>>

(***************************************************************************)
(* Bounds                                                                  *)
(***************************************************************************)
MaxFiles == 2       \* files on disk in a file-system state
MaxSims == 2        \* simulations declared by a SED-ML document
MaxModels == 2      \* number_of_models of run_biomodels
ValueMod == 5       \* species values are 0..ValueMod-1
MaxTime == 2        \* "time" of a step's config
MaxPoints == 3      \* "n_points" of a step's config
MaxCalls == 2       \* update calls on one step
MaxTail == 3        \* characters of a model reference after its head

(***************************************************************************)
(* Strings                                                                 *)
(***************************************************************************)
\* str.startswith(prefix)
StartsWith(s, p) == Len(s) >= Len(p) /\ SubSeq(s, 1, Len(p)) = p

\* str.startswith(tuple of prefixes)
StartsWithAny(s, ps) == \E p \in ps : StartsWith(s, p)

\* str.endswith(suffix)
EndsWith(s, p) == Len(s) >= Len(p) /\ SubSeq(s, Len(s) - Len(p) + 1, Len(s)) = p

\* sub in s
Contains(s, sub) ==
    \E i \in 1..(Len(s) - Len(sub) + 1) : SubSeq(s, i, i + Len(sub) - 1) = sub

LowerTable ==
    ("S" :> "s") @@ ("E" :> "e") @@ ("D" :> "d") @@ ("M" :> "m") @@ ("L" :> "l") @@
    ("X" :> "x") @@ ("B" :> "b") @@ ("I" :> "i") @@ ("O" :> "o")

\* str.lower()
Lower(s) == [i \in 1..Len(s) |-> IF s[i] \in DOMAIN LowerTable THEN LowerTable[s[i]] ELSE s[i]]

Slash == "/"

STR_http == <<"h", "t", "t", "p", ":", "/", "/">>
STR_https == <<"h", "t", "t", "p", "s", ":", "/", "/">>
STR_urn == <<"u", "r", "n", ":">>
STR_biomodels == <<"b", "i", "o", "m", "o", "d", "e", "l", "s", ":">>
STR_BIOMD == <<"B", "I", "O", "M", "D">>

\* run_biomodels.py:198, the prefixes that send the caller to the fallback
UrlPrefixes == {STR_http, STR_https, STR_urn, STR_biomodels, STR_BIOMD}

(***************************************************************************)
(* os.path on POSIX                                                        *)
(***************************************************************************)
RECURSIVE SplitFrom(_, _, _)
\* s.split("/") from position i, cur being the component read so far
SplitFrom(s, i, cur) ==
    IF i > Len(s) THEN <<cur>>
    ELSE IF s[i] = Slash THEN <<cur>> \o SplitFrom(s, i + 1, <<>>)
    ELSE SplitFrom(s, i + 1, Append(cur, s[i]))

Split(s) == SplitFrom(s, 1, <<>>)

RECURSIVE NormComps(_, _, _)
\* posixpath.normpath of an absolute path: "" and "." are dropped, ".." pops
\* (and is dropped at the root)
NormComps(comps, i, acc) ==
    IF i > Len(comps) THEN acc
    ELSE IF comps[i] = <<>> \/ comps[i] = <<".">> THEN NormComps(comps, i + 1, acc)
    ELSE IF comps[i] = <<".", ".">>
         THEN NormComps(comps, i + 1,
                        IF Len(acc) = 0 THEN acc ELSE SubSeq(acc, 1, Len(acc) - 1))
    ELSE NormComps(comps, i + 1, Append(acc, comps[i]))

RECURSIVE Unsplit(_, _)
\* "/" + "/".join(comps)
Unsplit(comps, i) ==
    IF Len(comps) = 0 THEN <<Slash>>
    ELSE IF i > Len(comps) THEN <<>>
    ELSE <<Slash>> \o comps[i] \o Unsplit(comps, i + 1)

\* os.path.join(a, b)
PathJoin(a, b) ==
    IF StartsWith(b, <<Slash>>) THEN b
    ELSE IF a = <<>> \/ a[Len(a)] = Slash THEN a \o b
    ELSE a \o <<Slash>> \o b

\* the working directory of the process
Cwd == <<"/", "w">>

\* os.path.abspath(p)
AbsPath(p) ==
    LET q == IF StartsWith(p, <<Slash>>) THEN p ELSE PathJoin(Cwd, p)
    IN  Unsplit(NormComps(Split(q), 1, <<>>), 1)

\* the index of the last "/" of p, 0 when there is none
LastSlash(p) ==
    LET I == { i \in 1..Len(p) : p[i] = Slash }
    IN  IF I = {} THEN 0 ELSE CHOOSE i \in I : \A j \in I : j <= i

\* os.path.basename(p)
BaseName(p) == SubSeq(p, LastSlash(p) + 1, Len(p))

\* os.path.dirname(p)
DirName(p) ==
    LET head == SubSeq(p, 1, LastSlash(p))
    IN  IF head # <<>> /\ \E i \in 1..Len(head) : head[i] # Slash
        THEN SubSeq(head, 1, Len(head) - 1)     \* rstrip of the one separator
        ELSE head

\* os.path.exists(p) on a disk holding the files `files` and the directory
\* `dir`: p is one of them or one of their ancestors
PathExists(p, files, dir) ==
    \/ p = <<Slash>>
    \/ \E f \in files \cup {dir} : f = p \/ StartsWith(f, p \o <<Slash>>)

(***************************************************************************)
(* resolve_sbml_source_from_sedml                                          *)
(***************************************************************************)
Return(v) == [kind |-> "return", value |-> v]
Raise(e) == [kind |-> "raise", value |-> e]
Pending == [kind |-> "pending", value |-> <<>>]

\* candidate = os.path.abspath(os.path.join(sedml_dir, src))
Candidate(sedml_dir, src) == AbsPath(PathJoin(sedml_dir, src))

\* src.startswith(("http://", "https://", "urn:", "biomodels:", "BIOMD"))
LooksLikeUrl(src) == StartsWithAny(src, UrlPrefixes)

\* the function with the os.path.exists test left out
ResolveNoExistsTest(doc, sedml_dir, fallback, files) ==
    IF doc.numModels = 0 \/ doc.model0None \/ doc.src = <<>> \/ LooksLikeUrl(doc.src)
    THEN Return(fallback)
    ELSE Return(Candidate(sedml_dir, doc.src))

ResolveSbmlSource(doc, sedml_dir, fallback, files) ==
    IF doc.numModels = 0 THEN Return(fallback)
    ELSE IF doc.model0None THEN Return(fallback)
    ELSE IF doc.src = <<>> THEN Return(fallback)
    ELSE IF LooksLikeUrl(doc.src) THEN Return(fallback)
    ELSE LET candidate == Candidate(sedml_dir, doc.src)
         IN  IF PathExists(candidate, files, sedml_dir)
             THEN Return(candidate)
             ELSE Return(fallback)

\* model sources a SED-ML document's first model may carry
STR_m == <<"m">>
SampleSources ==
    { <<>>,
      STR_http \o <<"h", "/", "m">>,
      STR_https \o <<"h", "/", "m">>,
      STR_urn \o STR_m,
      STR_biomodels \o STR_m,
      STR_BIOMD \o <<"1">>,
      STR_m,
      <<".", "/", "m">>,
      <<".", ".", "/", "m">>,
      <<"d", "/", "m">>,
      <<"/", "a", "/", "m">> }

\* directories the SED-ML file may lie in
SampleDirs == { <<"/", "t">>, <<"/", "t", "/", "d">> }

\* files that may be on disk
FileUniverse ==
    { <<"/", "t", "/", "m">>,
      <<"/", "t", "/", "d", "/", "m">>,
      <<"/", "t", "/", "d", "/", "d", "/", "m">>,
      <<"/", "t", "/">> \o STR_BIOMD \o <<"1">>,
      <<"/", "t", "/", "d", "/">> \o STR_BIOMD \o <<"1">>,
      <<"/", "a", "/", "m">>,
      <<"/", "m">>,
      <<"/", "t", "/", "f">> }

\* fallback paths: the SBML file found in the BioModels entry
SampleFallbacks == { <<"/", "t", "/", "f">>, <<"/", "t", "/", "m">> }

SampleDocs ==
    [numModels : {0, 1}, model0None : BOOLEAN, src : SampleSources]

\* the arguments while no call is made
NoResolveArgs ==
    [doc |-> [numModels |-> 0, model0None |-> FALSE, src |-> <<>>],
     sedml_dir |-> <<"/", "t">>, fallback |-> <<"/", "t", "/", "f">>, files |-> {}]

\* the arguments and disk states of a call
ResolveArgs ==
    [doc : SampleDocs, sedml_dir : SampleDirs, fallback : SampleFallbacks,
     files : {F \in SUBSET FileUniverse : Cardinality(F) <= MaxFiles}]

\* one call of resolve_sbml_source_from_sedml
Resolve ==
    /\ rs_out.kind = "pending"
    /\ rs_out' = ResolveSbmlSource(rs_in.doc, rs_in.sedml_dir, rs_in.fallback,
                                   rs_in.files)
    /\ UNCHANGED <<rs_in, exceptResolve>>

(***************************************************************************)
(* Claims on resolve_sbml_source_from_sedml                                *)
(***************************************************************************)
HasModelSource(doc) == doc.numModels > 0 /\ ~doc.model0None /\ doc.src # <<>>

\* a URL or an identifier scheme: "scheme:rest"
HasScheme(src) == \E i \in 1..Len(src) : src[i] = ":"

\* a relative local path: no scheme, not starting at the root
IsRelativePath(src) == src # <<>> /\ src[1] # Slash /\ ~HasScheme(src)

ResolvedExists ==
    PathExists(Candidate(rs_in.sedml_dir, rs_in.doc.src), rs_in.files, rs_in.sedml_dir)

\* C1 (as claimed): a relative model source whose resolution against the
\* SED-ML directory exists on disk is returned resolved, whatever its name.
C1_RelativeExistingResolved ==
    (/\ rs_out.kind # "pending"
     /\ HasModelSource(rs_in.doc)
     /\ IsRelativePath(rs_in.doc.src)
     /\ ResolvedExists)
    => rs_out = Return(Candidate(rs_in.sedml_dir, rs_in.doc.src))

\* C2: with no model, an empty source, a URL or identifier-scheme source, or
\* a resolved path that does not exist, the fallback is returned; the value
\* returned is always the fallback or a path that exists; nothing is raised.
C2_FallbackOrExisting ==
    rs_out.kind # "pending" =>
        /\ rs_out.kind = "return"
        /\ (\/ ~HasModelSource(rs_in.doc)
            \/ HasScheme(rs_in.doc.src)
            \/ ~ResolvedExists) => rs_out.value = rs_in.fallback
        /\ \/ rs_out.value = rs_in.fallback
           \/ PathExists(rs_out.value, rs_in.files, rs_in.sedml_dir)

\* C2 witness: a call that returned a resolved path differing from the
\* fallback, and the disk holds it
C2_Witness ==
    /\ rs_out.kind = "return"
    /\ rs_out.value # rs_in.fallback
    /\ rs_out.value \in rs_in.files
    /\ rs_in.doc.src = <<".", ".", "/", "m">>

(***************************************************************************)
(* extract_first_uniform_time_course                                       *)
(***************************************************************************)
NoSim == [kind |-> "none"]      \* getSimulation(i) returned None

\* the settings a uniform time course carries
SampleSettings ==
    { [initial_time |-> 0, output_start_time |-> 0, output_end_time |-> 10,
       number_of_points |-> 5],
      [initial_time |-> 0, output_start_time |-> 5, output_end_time |-> 20,
       number_of_points |-> 3] }

NoSettings == [initial_time |-> 0, output_start_time |-> 0, output_end_time |-> 0,
               number_of_points |-> 0]

\* What the python bindings hand out for a simulation.  A uniform time
\* course has the four getters; its isSedUniformTimeCourse() is there and
\* answers True, is there and fails, or is missing, depending on the binding.
\* Any other simulation (one step, steady state) has none of the getters and
\* its isSedUniformTimeCourse(), where there is one, answers False.
UtcSims ==
    [kind : {"utc"}, hasIsMethod : {TRUE}, isMethod : {"true", "raise"},
     hasGetters : {TRUE}, settings : SampleSettings]
    \cup
    [kind : {"utc"}, hasIsMethod : {FALSE}, isMethod : {"absent"},
     hasGetters : {TRUE}, settings : SampleSettings]

OtherSims ==
    [kind : {"onestep", "steadystate"}, hasIsMethod : {TRUE}, isMethod : {"false"},
     hasGetters : {FALSE}, settings : {NoSettings}]
    \cup
    [kind : {"onestep"}, hasIsMethod : {FALSE}, isMethod : {"absent"},
     hasGetters : {FALSE}, settings : {NoSettings}]

SampleSims == UtcSims \cup OtherSims \cup {NoSim}

SeqsUpTo(S, n) == UNION { [1..k -> S] : k \in 0..n }

\* the detection with the getter heuristic of lines 152-155 left out
IsUtcTypeTagOnly(sim) == sim.hasIsMethod /\ sim.isMethod = "true"

\* lines 144-155: isSedUniformTimeCourse() where there is one (a failure
\* counts as False), else the four getters
IsUtc(sim) ==
    LET byMethod == IF sim.hasIsMethod THEN sim.isMethod = "true" ELSE FALSE
    IN  IF byMethod THEN TRUE ELSE sim.hasGetters

NoUtcError == Raise("ValueError: No UniformTimeCourse simulation found in SED-ML.")

RECURSIVE ExtractFrom(_, _)
\* the loop of lines 136-170 from index i on, and the raise of line 172
ExtractFrom(sims, i) ==
    IF i > Len(sims) THEN NoUtcError
    ELSE IF sims[i] = NoSim THEN ExtractFrom(sims, i + 1)
    ELSE IF ~IsUtc(sims[i]) THEN ExtractFrom(sims, i + 1)
    ELSE IF ~sims[i].hasGetters THEN Raise("AttributeError")
    ELSE Return([initial_time |-> sims[i].settings.initial_time,
                 output_start_time |-> sims[i].settings.output_start_time,
                 output_end_time |-> sims[i].settings.output_end_time,
                 number_of_points |-> sims[i].settings.number_of_points])

ExtractFirstUniformTimeCourse(sims) == ExtractFrom(sims, 1)

\* one call of extract_first_uniform_time_course
Extract ==
    /\ ex_out.kind = "pending"
    /\ ex_out' = ExtractFirstUniformTimeCourse(ex_sims)
    /\ UNCHANGED <<ex_sims, exceptExtract>>

(***************************************************************************)
(* Claims on extract_first_uniform_time_course                             *)
(***************************************************************************)
\* the indices of the simulations that are uniform time courses
UtcIndices(sims) == { i \in 1..Len(sims) : sims[i] # NoSim /\ sims[i].kind = "utc" }

Min(S) == CHOOSE x \in S : \A y \in S : x <= y

\* C3: the settings returned are those of the lowest-index uniform time
\* course, and the no-UTC error is raised exactly when there is none.
C3_FirstUtcOrError ==
    ex_out.kind # "pending" =>
        IF UtcIndices(ex_sims) = {}
        THEN ex_out = NoUtcError
        ELSE ex_out = Return(ex_sims[Min(UtcIndices(ex_sims))].settings)

\* C3 witness: the uniform time course comes second, after a simulation that
\* is not one, its binding has no isSedUniformTimeCourse(), and it is returned
C3_Witness ==
    /\ ex_out.kind = "return"
    /\ Len(ex_sims) = 2
    /\ ex_sims[1] # NoSim /\ ex_sims[1].kind = "steadystate"
    /\ ex_sims[2] # NoSim /\ ex_sims[2].kind = "utc" /\ ~ex_sims[2].hasIsMethod
    /\ ex_out.value = ex_sims[2].settings

(***************************************************************************)
(* Picking files of a BioModels entry                                      *)
(***************************************************************************)
NoFile == <<>>      \* None, where a file entry is expected

STR_dot_sedml == <<".", "s", "e", "d", "m", "l">>
STR_dot_xml == <<".", "x", "m", "l">>
STR_dot_sbml == <<".", "s", "b", "m", "l">>
STR_sbml == <<"s", "b", "m", "l">>
STR_model == <<"m", "o", "d", "e", "l">>

\* _SEDML_RE.search(name): \.sedml$ with re.IGNORECASE
MatchesSedml(name) == EndsWith(Lower(name), STR_dot_sedml)

\* _SBML_RE.search(name): \.(xml|sbml)$ with re.IGNORECASE
MatchesSbml(name) ==
    EndsWith(Lower(name), STR_dot_xml) \/ EndsWith(Lower(name), STR_dot_sbml)

\* _iter_entry_files: a list is taken as it is, a dict gives the list under
\* the first of "files", "main_files", "model_files" that holds one, None
\* and a dict without such a list give nothing
IterEntryFiles(entry) ==
    IF entry.shape = "none" THEN <<>>
    ELSE IF entry.shape = "list" THEN entry.files
    ELSE IF entry.shape = "dict" /\ entry.key \in {"files", "main_files", "model_files"}
         THEN entry.files
    ELSE <<>>

\* the first element of seq whose index is in I, NoFile when I is empty: the
\* return inside a for loop, and the return None after it
FirstWhere(seq, I) ==
    IF I = {} THEN NoFile ELSE seq[CHOOSE i \in I : \A j \in I : i <= j]

\* find_first_sedml
FindFirstSedml(entry_files) ==
    FirstWhere(entry_files,
               { i \in 1..Len(entry_files) : MatchesSedml(entry_files[i]) })

\* find_first_sbml: the SBML-like names that are not SED-ML; of these the
\* first containing "sbml", else the first containing "model", else the first
FindFirstSbml(entry_files) ==
    LET IsCandidate(name) == ~MatchesSedml(name) /\ MatchesSbml(name)
        candidates == { i \in 1..Len(entry_files) : IsCandidate(entry_files[i]) }
        WithKey(key) ==
            { i \in candidates : Contains(Lower(entry_files[i]), key) }
    IN  IF WithKey(STR_sbml) # {} THEN FirstWhere(entry_files, WithKey(STR_sbml))
        ELSE IF WithKey(STR_model) # {} THEN FirstWhere(entry_files, WithKey(STR_model))
        ELSE FirstWhere(entry_files, candidates)

(***************************************************************************)
(* load_biomodel                                                           *)
(***************************************************************************)
\* tempfile.TemporaryDirectory(prefix="biomodel_<id>_")
TmpDir(biomodel_id) == <<"/", "tmp", "/", "biomodel_", biomodel_id, "_">>

\* where the biomodels library keeps a file it downloaded itself
CacheDir == <<"/", "cache">>

\* fetch_biomodel_files_to_dir: the path the file is at afterwards.
\* biomodels.get_file gives a path that exists (returned as it is), or
\* bytes or text that are written to out_dir/name
FetchPath(entry, name, out_dir) ==
    IF entry.get_file = "path" THEN PathJoin(CacheDir, name)
    ELSE PathJoin(out_dir, name)

\* a temporary directory that nothing removes
UnderNothing(d, paths) == {}

\* what lies under directory d, d included: what the cleanup of the
\* TemporaryDirectory removes
Under(d, paths) == { p \in paths : p = d \/ StartsWith(p, d \o <<Slash>>) }

\* the files among paths: those that are no directory of another path
IsFile(p, paths) == p \in paths /\ ~\E q \in paths : StartsWith(q, p \o <<Slash>>)

\* read_sedml_doc
ReadSedmlDoc(entry) ==
    IF entry.sedml = "none" THEN Raise("RuntimeError: libsedml returned None")
    ELSE IF entry.sedml = "errors" THEN Raise("RuntimeError: SED-ML parse errors")
    ELSE Return(entry.doc)

\* the body of the with block of load_biomodel, lines 249-268: the outcome
\* and the disk as the block leaves it (the temporary directory still there)
LoadInTmp(biomodel_id, entry, sedml_entry, sbml_entry, tmp, d0) ==
    LET sedml_path == FetchPath(entry, sedml_entry, tmp)
        sbml_path == FetchPath(entry, sbml_entry, tmp)
        d1 == d0 \cup {sedml_path, sbml_path}
        sed_doc == ReadSedmlDoc(entry)
        utc == ExtractFirstUniformTimeCourse(entry.sims)
        sedml_dir == DirName(AbsPath(sedml_path))
        resolved == ResolveSbmlSource(entry.doc, sedml_dir, sbml_path, d1)
        resolved_sbml == resolved.value
        stable_dir == AbsPath(PathJoin(<<"models">>, <<biomodel_id>>))
        stable_sedml == PathJoin(stable_dir, BaseName(sedml_path))
        stable_sbml == PathJoin(stable_dir, BaseName(resolved_sbml))
        d2 == d1 \cup {stable_dir, stable_sedml}
    IN  IF sed_doc.kind = "raise" THEN [out |-> sed_doc, disk |-> d1]
        ELSE IF utc.kind = "raise" THEN [out |-> utc, disk |-> d1]
        ELSE IF ~IsFile(resolved_sbml, d1)
             THEN [out |-> Raise("IsADirectoryError"), disk |-> d2]
        ELSE [out |-> Return([biomodel_id |-> biomodel_id, sbml_path |-> stable_sbml,
                              sedml_path |-> stable_sedml, utc |-> utc.value]),
              disk |-> d2 \cup {stable_sbml}]

\* load_biomodel: the outcome and the disk afterwards; leaving the with
\* block, by return or by exception, removes the temporary directory
LoadBiomodel(biomodel_id, entry, d0) ==
    LET entry_files == IterEntryFiles(entry)
        sedml_entry == FindFirstSedml(entry_files)
        sbml_entry == FindFirstSbml(entry_files)
        tmp == TmpDir(biomodel_id)
        body == LoadInTmp(biomodel_id, entry, sedml_entry, sbml_entry, tmp, d0 \cup {tmp})
    IN  IF sedml_entry = NoFile
        THEN [out |-> Raise("ValueError: could not find a .sedml file"), disk |-> d0]
        ELSE IF sbml_entry = NoFile
        THEN [out |-> Raise("ValueError: could not find an SBML file"), disk |-> d0]
        ELSE [out |-> body.out, disk |-> body.disk \ Under(tmp, body.disk)]

(***************************************************************************)
(* Documents                                                               *)
(***************************************************************************)
\* the duration taken from time 0
DurationFromZero(utc) == utc.output_end_time

\* UniformTimeCourseSpec.duration
Duration(utc) == utc.output_end_time - utc.output_start_time

\* make_utc_step_state: the step under "<step_name>_step", and "plot"
MakeUtcStepState(step_name, step_address, sbml_path, utc) ==
    (step_name \o <<"_step">> :>
        [type |-> "step",
         address |-> step_address,
         config |-> [model_source |-> sbml_path, time |-> Duration(utc),
                     n_points |-> utc.number_of_points],
         inputs |-> [concentrations |-> <<"species_concentrations">>,
                     counts |-> <<"species_counts">>],
         outputs |-> [result |-> <<"results", step_name>>]])
    @@ (<<"plot">> :> <<>>)

\* dict.update: the entries of g replace those of f
DictUpdate(f, g) == g @@ f

\* steps of run_biomodels, in the order the dict holds them
EngineSteps ==
    << <<"copasi", "local:CopasiUTCStep">>, <<"tellurium", "local:TelluriumUTCStep">> >>

RECURSIVE DocumentState(_, _, _, _, _)
\* the loop of make_biomodel_document over steps.items() from index i on
DocumentState(biomodel_id, sbml_path, utc, steps, i) ==
    IF i > Len(steps) THEN <<>>
    ELSE LET step_key == <<biomodel_id, "_", steps[i][1]>>
         IN  DictUpdate(MakeUtcStepState(step_key, steps[i][2], sbml_path, utc),
                        DocumentState(biomodel_id, sbml_path, utc, steps, i + 1))

\* make_biomodel_document
MakeBiomodelDocument(biomodel_id, sbml_path, utc, steps) ==
    [state |-> DocumentState(biomodel_id, sbml_path, utc, steps, 1)]

\* UniformTimeCourseSpec values
SampleUtcSpecs ==
    [initial_time : {0}, output_start_time : 0..1, output_end_time : 0..MaxTime,
     number_of_points : 0..MaxPoints]

\* engine names and their step addresses
EngineAddresses ==
    [copasi |-> "local:CopasiUTCStep", tellurium |-> "local:TelluriumUTCStep",
     x |-> "local:TelluriumUTCStep"]

\* steps.items() of a dict over some of the engines, in any order
SampleEngineMaps ==
    { [i \in 1..Len(names) |-> <<names[i], EngineAddresses[names[i]]>>] :
        names \in { q \in SeqsUpTo(DOMAIN EngineAddresses, Cardinality(DOMAIN EngineAddresses)) :
                        \A i, j \in 1..Len(q) : i # j => q[i] # q[j] } }

\* the arguments make_biomodel_document is called with
DocumentArgs ==
    [biomodel_id : {"B1", "B2"},
     sbml_path : { <<Slash, "w", Slash, "models", Slash, "B1", Slash, "m.xml">>,
                   <<Slash, "w", Slash, "models", Slash, "B2", Slash, "n.xml">> },
     utc : SampleUtcSpecs,
     steps : SampleEngineMaps]

\* a call of make_biomodel_document
MakeDocument ==
    /\ md_out = Pending
    /\ md_out' = Return(MakeBiomodelDocument(md_in.biomodel_id, md_in.sbml_path,
                                              md_in.utc, md_in.steps))
    /\ UNCHANGED <<md_in, exceptDocument>>

(***************************************************************************)
(* run_biomodels                                                           *)
(***************************************************************************)
\* biomodels.get_all_identifiers()
AllIdentifiers == <<"B1", "B2", "B3", "B4">>

\* a BioModels entry that loads: a SED-ML file with one uniform time course
\* whose model source names the SBML file beside it
GoodEntry ==
    [shape |-> "list", key |-> "files",
     files |-> << <<"s">> \o STR_dot_sedml, <<"m">> \o STR_dot_xml >>,
     get_file |-> "bytes", sedml |-> "ok",
     sims |-> << [kind |-> "utc", hasIsMethod |-> TRUE, isMethod |-> "true",
                  hasGetters |-> TRUE,
                  settings |-> [initial_time |-> 0, output_start_time |-> 0,
                                output_end_time |-> 10, number_of_points |-> 5]] >>,
     doc |-> [numModels |-> 1, model0None |-> FALSE, src |-> <<"m">> \o STR_dot_xml]]

\* what biomodels.get_metadata may give for an identifier
SampleEntries ==
    { GoodEntry,
      [GoodEntry EXCEPT !.shape = "dict", !.key = "main_files", !.get_file = "path",
                        !.files = << <<"r", ".", "t", "x", "t">>, <<"m">> \o STR_dot_xml,
                                     STR_model \o STR_dot_xml, <<"S", ".", "S", "E", "D", "M", "L">> >>,
                        !.doc = [numModels |-> 1, model0None |-> FALSE,
                                 src |-> STR_http \o <<"h", "/", "m">>]],
      [GoodEntry EXCEPT !.files = << <<"m">> \o STR_dot_xml >>],
      [GoodEntry EXCEPT !.files = << <<"s">> \o STR_dot_sedml >>],
      [GoodEntry EXCEPT !.shape = "none"],
      [GoodEntry EXCEPT !.sedml = "errors"],
      [GoodEntry EXCEPT !.sims = << [kind |-> "steadystate", hasIsMethod |-> TRUE,
                                     isMethod |-> "false", hasGetters |-> FALSE,
                                     settings |-> NoSettings] >>],
      [GoodEntry EXCEPT !.doc = [numModels |-> 1, model0None |-> FALSE, src |-> <<".">>]] }

\* biomodel_ids and biomodel_metadata, lines 348-349
BatchInputs ==
    { [ids |-> SubSeq(AllIdentifiers, 1, n), meta |-> m] :
        n \in 0..MaxModels, m \in UNION { [{AllIdentifiers[k] : k \in 1..j} -> SampleEntries] : j \in 0..MaxModels } }

\* os.path.join("documents", f"{biomodel_id}.json"), as the disk sees it
DocumentPath(biomodel_id) == AbsPath(PathJoin(<<"documents">>, <<biomodel_id, ".json">>))

\* load_biomodel of the loop's current identifier
CurrentLoad ==
    LoadBiomodel(rb_in.ids[rb_i], rb_in.meta[rb_in.ids[rb_i]], disk)

\* an iteration of the for loop whose load_biomodel returns: lines 359-382
LoadAndWrite ==
    /\ rb_pc = "loop"
    /\ rb_i <= Len(rb_in.ids)
    /\ CurrentLoad.out.kind = "return"
    /\ LET result == CurrentLoad.out.value
           doc == MakeBiomodelDocument(rb_in.ids[rb_i], result.sbml_path, result.utc,
                                       EngineSteps)
       IN  /\ loaded' = Append(loaded, result)
           /\ disk' = CurrentLoad.disk \cup {AbsPath(<<"documents">>),
                                             DocumentPath(rb_in.ids[rb_i])}
           /\ documents' = (DocumentPath(rb_in.ids[rb_i]) :> doc) @@ documents
    /\ rb_i' = rb_i + 1
    /\ UNCHANGED <<rb_in, rb_pc, rb_error, exceptBatch>>

\* an iteration whose load_biomodel raises: nothing in run_biomodels catches
\* it, so the exception leaves the function
LoadRaises ==
    /\ rb_pc = "loop"
    /\ rb_i <= Len(rb_in.ids)
    /\ CurrentLoad.out.kind = "raise"
    /\ rb_pc' = "raised"
    /\ rb_error' = CurrentLoad.out.value
    /\ disk' = CurrentLoad.disk
    /\ UNCHANGED <<rb_in, rb_i, loaded, documents, exceptBatch>>

\* the loop is through: return loaded
ReturnLoaded ==
    /\ rb_pc = "loop"
    /\ rb_i > Len(rb_in.ids)
    /\ rb_pc' = "done"
    /\ UNCHANGED <<rb_in, rb_i, loaded, disk, documents, rb_error, exceptBatch>>

(***************************************************************************)
(* Claims on run_biomodels                                                 *)
(***************************************************************************)
\* load_biomodel of this identifier succeeds when called on its own
Loadable(biomodel_id) ==
    LoadBiomodel(biomodel_id, rb_in.meta[biomodel_id], {Cwd}).out.kind = "return"

\* C4 (as claimed): when run_biomodels has ended, every identifier of the
\* list whose model loads has its document written, whatever happened to the
\* identifiers before it.
C4_BatchIsolatesFailures ==
    rb_pc \in {"done", "raised"} =>
        \A k \in 1..Len(rb_in.ids) :
            Loadable(rb_in.ids[k]) => DocumentPath(rb_in.ids[k]) \in disk

(***************************************************************************)
(* The simulation engine behind an adapter                                 *)
(*                                                                         *)
(* The solvers are external.  What the adapters rely on is modelled: an    *)
(* engine holds one value per floating species, set by setValue and moved  *)
(* on by a run; simulate(start, end, points) samples `points` rows evenly  *)
(* over [start, end], the first being the state the run starts from, and   *)
(* leaves the engine in the state of the last row.  Flow is the engine's   *)
(* advance over one sampling interval.  Times are exact fractions          *)
(* [num, den].                                                             *)
(***************************************************************************)
\* rr.getFloatingSpeciesIds()
SpeciesIds == <<"S1", "S2">>

\* rr.getReactionIds()
ReactionIds == <<"R1">>

SpeciesSet == { SpeciesIds[i] : i \in 1..Len(SpeciesIds) }

\* the species values of the model as loaded
LoadedValues == [sid \in SpeciesSet |-> IF sid = "S1" THEN 0 ELSE 1]

Flow(values) == [sid \in DOMAIN values |-> (2 * values[sid] + 1) % ValueMod]

RECURSIVE FlowTimes(_, _)
FlowTimes(values, k) == IF k = 0 THEN values ELSE FlowTimes(Flow(values), k - 1)

STR_time == <<"time">>

\* the default timeCourseSelections: time, then [sid] for every species
DefaultSelections ==
    <<STR_time>> \o [i \in 1..Len(SpeciesIds) |-> <<"[", SpeciesIds[i], "]">>]

Frac(n, d) == [num |-> n, den |-> d]

\* one cell of the table simulate returns
Cell(sel, values, k, start, end, points) ==
    IF sel = STR_time
    THEN Frac(start * (points - 1) + (k - 1) * (end - start), points - 1)
    ELSE values[CHOOSE sid \in DOMAIN values : sel \in {<<sid>>, <<"[", sid, "]">>}]

\* rr.simulate(start, end, points): the table tc (colnames, and rows 1..points)
\* and the values the engine is left with
Simulate(rr, start, end, points) ==
    [colnames |-> rr.selections,
     rows |-> [k \in 1..points |->
                  [c \in 1..Len(rr.selections) |->
                      Cell(rr.selections[c], FlowTimes(rr.values, k - 1), k,
                           start, end, points)]],
     final |-> FlowTimes(rr.values, points - 1)]

\* rr.setValue(sid, value)
SetValue(values, sid, value) == [values EXCEPT ![sid] = value]

(***************************************************************************)
(* TelluriumStep                                                           *)
(***************************************************************************)
EmptyMap == <<>>    \* {}

\* inputs.get(key): None, here the empty mapping, when the key is missing
Get(inputs, key) == IF key \in DOMAIN inputs THEN inputs[key] ELSE EmptyMap

\* the choice of lines 46-50 with the operands swapped
SpecDataConcentrationsFirst(inputs) ==
    IF Get(inputs, "species_concentrations") # EmptyMap
    THEN Get(inputs, "species_concentrations")
    ELSE Get(inputs, "species_counts")

\* inputs.get("species_counts") or inputs.get("species_concentrations") or {}
SpecData(inputs) ==
    IF Get(inputs, "species_counts") # EmptyMap THEN Get(inputs, "species_counts")
    ELSE IF Get(inputs, "species_concentrations") # EmptyMap
         THEN Get(inputs, "species_concentrations")
    ELSE EmptyMap

\* the loop of lines 54-56: setValue for the ids the model has; `applied`
\* keeps the setValue calls made
SetIncoming(values, species_index, spec_data) ==
    LET known == DOMAIN spec_data \cap species_index
    IN  [out |-> "ok",
         applied |-> [sid \in known |-> spec_data[sid]],
         values |-> [sid \in DOMAIN values |->
                        IF sid \in known THEN spec_data[sid] ELSE values[sid]]]

\* set_road_runner_incoming_values
SetRoadRunnerIncomingValues(values, species_index, inputs) ==
    SetIncoming(values, species_index, SpecData(inputs))

\* SBML files a step may be configured with, and the one that loads
SampleModelSources == { <<"models", "/", "m.xml">>, <<"models", "/", "nope.xml">> }

\* te.loadSBMLModel(model_path_resolution(model_source)) succeeds
ModelLoads(model_source) == model_source = <<"models", "/", "m.xml">>

\* a Step object before its constructor has run
NewStep(cls) ==
    [cls |-> cls, phase |-> "new", error |-> "", config |-> <<>>, time |-> 0,
     n_points |-> 0, species_ids |-> <<>>, reaction_ids |-> <<>>,
     rr |-> [values |-> <<>>, selections |-> <<>>],
     calls |-> 0, applied |-> EmptyMap, before |-> <<>>, solver |-> "",
     out |-> Pending]

\* _tellurium_initialize: load the model and cache its ids
TelluriumInitialize(st, config) ==
    IF ~ModelLoads(config.model_source)
    THEN [st EXCEPT !.config = config, !.phase = "failed",
                    !.error = "RuntimeError: Could not load SBML model"]
    ELSE [st EXCEPT !.config = config, !.phase = "loaded",
                    !.rr = [values |-> LoadedValues, selections |-> DefaultSelections],
                    !.species_ids = SpeciesIds, !.reaction_ids = ReactionIds]

\* TelluriumUTCStep.initialize with the test of line 72 off by one
UtcInitializeAcceptsOne(st, config) ==
    LET t == TelluriumInitialize(st, config)
    IN  IF t.phase = "failed" THEN t
        ELSE [t EXCEPT !.time = config.time, !.n_points = config.n_points,
                       !.phase = IF config.n_points < 1 THEN "failed" ELSE "ready",
                       !.error = IF config.n_points < 1
                                 THEN "ValueError: n_points must be >= 2" ELSE ""]

\* TelluriumUTCStep.initialize, run by the constructor: the step is "ready"
\* when it returns and "failed" when it raises
UtcInitialize(st, config) ==
    LET t == TelluriumInitialize(st, config)
    IN  IF t.phase = "failed" THEN t
        ELSE [t EXCEPT !.time = config.time, !.n_points = config.n_points,
                       !.phase = IF config.n_points < 2 THEN "failed" ELSE "ready",
                       !.error = IF config.n_points < 2
                                 THEN "ValueError: n_points must be >= 2" ELSE ""]

\* TelluriumSteadyStateStep.initialize
SteadyStateInitialize(st, config) ==
    LET t == TelluriumInitialize(st, config)
    IN  IF t.phase = "failed" THEN t ELSE [t EXCEPT !.phase = "ready"]

(***************************************************************************)
(* TelluriumUTCStep.update                                                 *)
(***************************************************************************)
IsBracket(c) == c \in {"[", "]"}

RECURSIVE LStrip(_)
LStrip(name) ==
    IF name # <<>> /\ IsBracket(name[1]) THEN LStrip(Tail(name)) ELSE name

RECURSIVE RStrip(_)
RStrip(name) ==
    IF name # <<>> /\ IsBracket(name[Len(name)])
    THEN RStrip(SubSeq(name, 1, Len(name) - 1)) ELSE name

\* name.strip("[]")
Strip(name) == RStrip(LStrip(name))

\* {name.strip("[]"): i for i, name in enumerate(colnames)}: of two columns
\* with one normalized name the later one stays
NormToIndex(colnames) ==
    [n \in { Strip(colnames[i]) : i \in 1..Len(colnames) } |->
        CHOOSE i \in 1..Len(colnames) :
            /\ Strip(colnames[i]) = n
            /\ \A j \in 1..Len(colnames) : Strip(colnames[j]) = n => j <= i]

\* lines 102-106: the columns of the species the table has
SpeciesCols(species_ids, norm_to_index) ==
    [sid \in { species_ids[i] : i \in 1..Len(species_ids) } \cap
             { n[1] : n \in { m \in DOMAIN norm_to_index : Len(m) = 1 } } |->
        norm_to_index[<<sid>>]]

\* for sid, idx in species_cols.items(): rr.setValue(sid, float(tc[row, idx]))
SetRow(values, rows, row, species_cols) ==
    [sid \in DOMAIN values |->
        IF sid \in DOMAIN species_cols THEN rows[row][species_cols[sid]] ELSE values[sid]]

RECURSIVE SampleRows(_, _, _, _)
\* the loop of lines 112-118 from `row` on: the model is set to each row in
\* turn (the reaction rates read there are not returned)
SampleRows(values, rows, row, species_cols) ==
    IF row > Len(rows) THEN values
    ELSE SampleRows(SetRow(values, rows, row, species_cols), rows, row + 1, species_cols)

\* last_row with the index of the first row
LastRowIsFirst(rows) == 1

\* last_row = tc.shape[0] - 1, as a 1-based index
LastRow(rows) == Len(rows)

\* tc[:, time_idx].tolist()
TimeColumn(rows, time_idx) == [r \in 1..Len(rows) |-> rows[r][time_idx]]

\* [c.strip("[]") for c in colnames if c != "time"]
ResultColumns(colnames) ==
    LET kept == SelectSeq(colnames, LAMBDA c : c # STR_time)
    IN  [i \in 1..Len(kept) |-> Strip(kept[i])]

\* tc[:, 1:].tolist()
ResultValues(rows) == [r \in 1..Len(rows) |-> SubSeq(rows[r], 2, Len(rows[r]))]

\* the run of line 89 started where the calls before it ended
SimulateFromElapsed(st, values) ==
    Simulate([st.rr EXCEPT !.values = values], st.calls * st.time,
             (st.calls + 1) * st.time, st.n_points)

\* tc = self.rr.simulate(0, self.time, self.n_points)
SimulateCall(st, values) ==
    Simulate([st.rr EXCEPT !.values = values], 0, st.time, st.n_points)

\* TelluriumUTCStep.update
TelluriumUTCUpdate(st, inputs) ==
    LET species_index == { st.species_ids[i] : i \in 1..Len(st.species_ids) }
        inc == SetRoadRunnerIncomingValues(st.rr.values, species_index, inputs)
        tc == SimulateCall(st, inc.values)
        norm_to_index == NormToIndex(tc.colnames)
        species_cols == SpeciesCols(st.species_ids, norm_to_index)
        sampled == SampleRows(tc.final, tc.rows, 1, species_cols)
        restored == SetRow(sampled, tc.rows, LastRow(tc.rows), species_cols)
        called == [st EXCEPT !.calls = @ + 1, !.before = st.rr.values,
                             !.applied = inc.applied]
    IN  IF inc.out = "raise"
        THEN [called EXCEPT !.out = Raise("RuntimeError: setValue")]
        ELSE IF STR_time \notin DOMAIN norm_to_index
        THEN [called EXCEPT !.rr.values = tc.final, !.out = Raise("KeyError: 'time'")]
        ELSE [called EXCEPT
                !.rr.values = restored,
                !.out = Return([result |->
                            [time |-> TimeColumn(tc.rows, norm_to_index[STR_time]),
                             columns |-> ResultColumns(tc.colnames),
                             values |-> ResultValues(tc.rows)]])]

(***************************************************************************)
(* TelluriumSteadyStateStep.update                                         *)
(***************************************************************************)
\* the state rr.steadyState() moves the model to: the fixed point of Flow
SteadyValues(values) == [sid \in DOMAIN values |-> ValueMod - 1]

\* rr.getFullJacobian() of Flow
FullJacobian(species_ids) ==
    [i \in 1..Len(species_ids) |-> [j \in 1..Len(species_ids) |-> IF i = j THEN 2 ELSE 0]]

\* lines 161-164 with the exception swallowed: the model stays where it was
SteadyStateSwallowed(values, converges) ==
    [raised |-> FALSE,
     values |-> IF converges THEN SteadyValues(values) ELSE values]

\* lines 161-164: rr.steadyState() moves the model to the steady state, or
\* raises, and the except clause raises RuntimeError in its place
SteadyStateOrRaise(values, converges) ==
    IF converges THEN [raised |-> FALSE, values |-> SteadyValues(values)]
    ELSE [raised |-> TRUE, values |-> values]

\* TelluriumSteadyStateStep.update; `converges` is the solver's doing
TelluriumSteadyStateUpdate(st, inputs, converges) ==
    LET species_index == { st.species_ids[i] : i \in 1..Len(st.species_ids) }
        inc == SetRoadRunnerIncomingValues(st.rr.values, species_index, inputs)
        solved == SteadyStateOrRaise(inc.values, converges)
        ss == solved.values
        called == [st EXCEPT !.calls = @ + 1, !.before = st.rr.values,
                             !.applied = inc.applied,
                             !.solver = IF converges THEN "converged" ELSE "failed"]
        steady_state ==
            [time |-> <<0>>, columns |-> st.species_ids,
             values |-> << [i \in 1..Len(st.species_ids) |-> ss[st.species_ids[i]]] >>]
        jacobian ==
            [time |-> <<0>>, columns |-> st.species_ids,
             values |-> FullJacobian(st.species_ids)]
    IN  IF inc.out = "raise"
        THEN [called EXCEPT !.out = Raise("RuntimeError: setValue")]
        ELSE IF solved.raised
        THEN [called EXCEPT !.rr.values = solved.values,
                            !.out = Raise("RuntimeError: Tellurium steadyState() failed")]
        ELSE [called EXCEPT
                !.rr.values = ss,
                !.out = Return([result |-> [jacobian |-> jacobian,
                                            steady_state |-> steady_state]])]

(***************************************************************************)
(* CopasiUTCStep (sed2/processes/copasi.py)                                *)
(***************************************************************************)
\* CopasiUTCStep.__init__
CopasiInit(st, config) ==
    IF ~ModelLoads(config.model_source)
    THEN [st EXCEPT !.config = config, !.phase = "failed",
                    !.error = "RuntimeError: load_model returned None"]
    ELSE [st EXCEPT !.config = config, !.phase = "ready",
                    !.rr = [values |-> LoadedValues, selections |-> DefaultSelections],
                    !.species_ids = SpeciesIds, !.reaction_ids = ReactionIds,
                    !.time = config.time]

\* spec_data = inputs.get('species_counts', {}) or {}
CopasiSpecData(inputs) == Get(inputs, "species_counts")

\* _set_initial_concentrations over the changes of lines 133-137: the
\* species the model has get their initial concentration set
CopasiSetInitial(values, species_names, spec_data) ==
    LET changes == DOMAIN spec_data \cap species_names
    IN  [out |-> "ok",
         applied |-> [name \in changes |-> spec_data[name]],
         values |-> [name \in DOMAIN values |->
                        IF name \in changes THEN spec_data[name] ELSE values[name]]]

\* the reaction fluxes read back from the model
Fluxes(reaction_ids, values) ==
    [rid \in { reaction_ids[i] : i \in 1..Len(reaction_ids) } |-> values["S1"]]

\* CopasiUTCStep.update: run_time_course with update_model=True leaves the
\* model at the end of the run
CopasiUpdate(st, inputs) ==
    LET species_names == { st.species_ids[i] : i \in 1..Len(st.species_ids) }
        inc == CopasiSetInitial(st.rr.values, species_names, CopasiSpecData(inputs))
        final == Flow(inc.values)
    IN  [st EXCEPT !.calls = @ + 1, !.before = st.rr.values, !.applied = inc.applied,
                   !.rr.values = final,
                   !.out = Return([results |->
                                [species_concentrations |-> final,
                                 reaction_fluxes |-> Fluxes(st.reaction_ids, final)]])]

(***************************************************************************)
(* pathlib on POSIX, and model_path_resolution (processes/utils.py)        *)
(***************************************************************************)
\* the root of a path string: "//" for exactly two leading slashes, "/" for
\* one or for three and more, "" for none
PathRoot(s) ==
    IF StartsWith(s, <<Slash, Slash>>) /\ ~StartsWith(s, <<Slash, Slash, Slash>>)
    THEN <<Slash, Slash>>
    ELSE IF StartsWith(s, <<Slash>>) THEN <<Slash>>
    ELSE <<>>

\* the components of a path string: empty ones and "." are dropped
PathParts(s) == SelectSeq(Split(s), LAMBDA c : c # <<>> /\ c # <<".">>)

\* Path(s)
Path(s) == [root |-> PathRoot(s), parts |-> PathParts(s)]

RECURSIVE JoinParts(_, _)
\* "/".join(parts) from index i on
JoinParts(parts, i) ==
    IF i > Len(parts) THEN <<>>
    ELSE IF i = Len(parts) THEN parts[i]
    ELSE parts[i] \o <<Slash>> \o JoinParts(parts, i + 1)

\* str(path)
PathStr(path) ==
    IF path.root = <<>> /\ path.parts = <<>> THEN <<".">>
    ELSE path.root \o JoinParts(path.parts, 1)

\* path.is_absolute()
IsAbsolute(path) == path.root # <<>>

\* a / b
PathDiv(a, b) ==
    IF IsAbsolute(b) THEN b ELSE [root |-> a.root, parts |-> a.parts \o b.parts]

\* path.parent
Parent(path) ==
    IF path.parts = <<>> THEN path
    ELSE [path EXCEPT !.parts = SubSeq(path.parts, 1, Len(path.parts) - 1)]

\* __file__ of processes/utils.py
ThisFile == <<Slash, "s", Slash, "b", Slash, "p", Slash, "u">>

\* project_root = Path(__file__).parent.parent
ProjectRoot == Parent(Parent(Path(ThisFile)))

\* model_path_resolution with "https://" missing from the tuple of line 5
ModelPathResolutionHttpOnly(model_source) ==
    IF ~StartsWith(model_source, STR_http)
    THEN LET model_path == Path(model_source)
         IN  PathStr(IF ~IsAbsolute(model_path) THEN PathDiv(ProjectRoot, model_path)
                     ELSE model_path)
    ELSE model_source

\* model_path_resolution
ModelPathResolution(model_source) ==
    IF ~StartsWithAny(model_source, {STR_http, STR_https})
    THEN LET model_path == Path(model_source)
         IN  PathStr(IF ~IsAbsolute(model_path) THEN PathDiv(ProjectRoot, model_path)
                     ELSE model_path)
    ELSE model_source

\* how a sample reference starts: nothing, the URL schemes and near misses of
\* them, one and two slashes, "./"
SampleHeads ==
    { <<>>, STR_http, STR_https, <<"h", "t", "t", "p", ":", Slash>>,
      <<"H", "T", "T", "P", ":", Slash, Slash>>, <<Slash>>, <<Slash, Slash>>,
      <<".", Slash>> }

\* how it goes on
SampleTails == SeqsUpTo({Slash, ".", "m"}, MaxTail)

\* the references model_path_resolution is called on
SampleReferences == { h \o t : h \in SampleHeads, t \in SampleTails }

\* a call of model_path_resolution
ResolvePath ==
    /\ mp_out = Pending
    /\ mp_out' = Return(ModelPathResolution(mp_in))
    /\ UNCHANGED <<mp_in, mp_again, exceptPath>>

\* a call of model_path_resolution on what the call before returned
ResolvePathAgain ==
    /\ mp_out # Pending
    /\ mp_again = Pending
    /\ mp_again' = Return(ModelPathResolution(mp_out.value))
    /\ UNCHANGED <<mp_in, mp_out, exceptPath>>

(***************************************************************************)
(* Declared ports                                                          *)
(***************************************************************************)
\* inputs() of TelluriumStep and of CopasiUTCStep
Inputs(cls) ==
    [species_concentrations |-> "map[float]", species_counts |-> "map[float]"]

\* outputs() with every class declaring the port CopasiUTCStep declares
OutputsAllResults(cls) ==
    IF cls = "TelluriumUTCStep" THEN [results |-> "numeric_result"]
    ELSE IF cls = "TelluriumSteadyStateStep" THEN [results |-> "map[numeric_result]"]
    ELSE [results |-> "any"]

\* outputs() of each step class
Outputs(cls) ==
    IF cls = "TelluriumUTCStep" THEN [result |-> "numeric_result"]
    ELSE IF cls = "TelluriumSteadyStateStep" THEN [result |-> "map[numeric_result]"]
    ELSE [results |-> "any"]

\* the registered type numeric_result: time list[float], columns list[string],
\* values list[list[float]]
NumericResult == {"time", "columns", "values"}

(***************************************************************************)
(* Steps: construction and update calls                                    *)
(***************************************************************************)
Adapters == {"TelluriumUTCStep", "TelluriumSteadyStateStep", "CopasiUTCStep"}

\* ids an override mapping may carry: the model's species and one it lacks
OverrideIds == SpeciesSet \cup {"X9"}

OverrideValues == {2, 3}

\* the mappings over the ids D
MapsOver(D) == UNION { [K -> OverrideValues] : K \in SUBSET D }

\* the inputs update may be handed: each port missing, empty or a mapping
SampleInputs ==
    UNION { [P -> MapsOver(OverrideIds)] :
            P \in SUBSET {"species_counts", "species_concentrations"} }

\* the fewer inputs the repeated calls of one step are handed
RepeatInputs ==
    { i \in SampleInputs :
        /\ DOMAIN i = {"species_counts", "species_concentrations"}
        /\ DOMAIN i.species_counts \subseteq {"S1", "X9"}
        /\ DOMAIN i.species_concentrations \subseteq {"S2"}
        /\ \A k \in DOMAIN i.species_counts : i.species_counts[k] = 2
        /\ \A k \in DOMAIN i.species_concentrations : i.species_concentrations[k] = 3 }

\* inputs without overrides, and inputs with one
LifecycleInputs ==
    { i \in RepeatInputs :
        i.species_concentrations = EmptyMap /\ DOMAIN i.species_counts \subseteq {"S1"} }

\* the configs a TelluriumUTCStep may be constructed with
SampleConfigs ==
    [model_source : SampleModelSources, time : 1..MaxTime, n_points : 0..MaxPoints]

\* the config of the steps of the comparison document
ComparisonConfig ==
    [model_source |-> <<"models", "/", "m.xml">>, time |-> 10, n_points |-> 10]

\* the constructor of a step class
Constructed(cls, config) ==
    IF cls = "TelluriumUTCStep" THEN UtcInitialize(NewStep(cls), config)
    ELSE IF cls = "TelluriumSteadyStateStep" THEN SteadyStateInitialize(NewStep(cls), config)
    ELSE CopasiInit(NewStep(cls), config)

\* TelluriumUTCStep(config, core): the constructor runs initialize
ConstructUTC(config) ==
    /\ step["TelluriumUTCStep"].phase = "new"
    /\ step' = [step EXCEPT !["TelluriumUTCStep"] = Constructed("TelluriumUTCStep", config)]
    /\ UNCHANGED <<store, exceptSteps>>

\* a call of TelluriumUTCStep.update
UpdateUTC(inputs) ==
    /\ step["TelluriumUTCStep"].phase = "ready"
    /\ step["TelluriumUTCStep"].calls < MaxCalls
    /\ step' = [step EXCEPT !["TelluriumUTCStep"] = TelluriumUTCUpdate(@, inputs)]
    /\ store' = inputs
    /\ UNCHANGED exceptSteps

\* a call of TelluriumSteadyStateStep.update
UpdateSteadyState(inputs, converges) ==
    /\ step["TelluriumSteadyStateStep"].phase = "ready"
    /\ step["TelluriumSteadyStateStep"].calls < MaxCalls
    /\ step' = [step EXCEPT !["TelluriumSteadyStateStep"] =
                                TelluriumSteadyStateUpdate(@, inputs, converges)]
    /\ store' = inputs
    /\ UNCHANGED exceptSteps

\* a call of CopasiUTCStep.update
UpdateCopasi(inputs) ==
    /\ step["CopasiUTCStep"].phase = "ready"
    /\ step["CopasiUTCStep"].calls < MaxCalls
    /\ step' = [step EXCEPT !["CopasiUTCStep"] = CopasiUpdate(@, inputs)]
    /\ store' = inputs
    /\ UNCHANGED exceptSteps

\* update of a Tellurium step whose initialize never ran, were rr there all
\* the same: a run over a model without species
UpdateBeforeInitializeSimulates(st, inputs) ==
    [st EXCEPT !.calls = @ + 1,
               !.out = Return([result |-> [time |-> <<>>, columns |-> <<>>,
                                           values |-> <<>>]])]

\* update of a Tellurium step whose initialize never ran: the object has no
\* _species_index (read at line 55 when there are overrides) and no rr (read
\* at line 89, and at line 162 inside the try), so the attribute access
\* raises AttributeError, which line 164 turns into RuntimeError
UpdateBeforeInitialize(st, inputs) ==
    [st EXCEPT !.calls = @ + 1,
               !.out = IF SpecData(inputs) # EmptyMap
                       THEN Raise("AttributeError: _species_index")
                       ELSE IF st.cls = "TelluriumSteadyStateStep"
                       THEN Raise("RuntimeError: Tellurium steadyState() failed")
                       ELSE Raise("AttributeError: rr")]

\* TelluriumSteadyStateStep(config, core): the constructor runs initialize
ConstructSteadyState(config) ==
    /\ step["TelluriumSteadyStateStep"].phase = "new"
    /\ step' = [step EXCEPT !["TelluriumSteadyStateStep"] =
                                Constructed("TelluriumSteadyStateStep", config)]
    /\ UNCHANGED <<store, exceptSteps>>

\* update called on a Tellurium step object that was never initialized
UpdateUninitialized(cls, inputs) ==
    /\ step[cls].phase = "new"
    /\ step[cls].calls < MaxCalls
    /\ step' = [step EXCEPT ![cls] = UpdateBeforeInitialize(@, inputs)]
    /\ store' = inputs
    /\ UNCHANGED exceptSteps

(***************************************************************************)
(* Documents of the comparison experiments, and the step registry          *)
(***************************************************************************)
\* PROCESS_DICT under the "local:" protocol: the class an address resolves to
Registry ==
    [a \in {"local:TelluriumUTCStep", "local:TelluriumSteadyStateStep",
            "local:CopasiUTCStep", "local:CompareResults"} |->
        IF a = "local:TelluriumUTCStep" THEN "TelluriumUTCStep"
        ELSE IF a = "local:TelluriumSteadyStateStep" THEN "TelluriumSteadyStateStep"
        ELSE IF a = "local:CopasiUTCStep" THEN "CopasiUTCStep"
        ELSE "CompareResults"]

\* the 'comparison' node of both comparison documents
ComparisonNode ==
    [type |-> "step", address |-> "local:CompareResults", config |-> <<>>,
     inputs |-> [results |-> <<"results">>],
     outputs |-> [comparison |-> <<"comparison_result">>]]

\* state of biocompose/experiments/copasi_tellurium_comparison.py, the two
\* seed mappings being what the caller provides there ({} as it stands)
ComparisonState(concentrations, counts) ==
    [species_concentrations |-> concentrations,
     species_counts |-> counts,
     tellurium_step |->
        [type |-> "step", address |-> "local:TelluriumUTCStep",
         config |-> ComparisonConfig,
         inputs |-> [concentrations |-> <<"species_concentrations">>,
                     counts |-> <<"species_counts">>],
         outputs |-> [result |-> <<"results", "tellurium">>]],
     copasi_step |->
        [type |-> "step", address |-> "local:CopasiUTCStep",
         config |-> ComparisonConfig,
         inputs |-> [concentrations |-> <<"species_concentrations">>,
                     counts |-> <<"species_counts">>],
         outputs |-> [result |-> <<"results", "copasi">>]],
     comparison |-> ComparisonNode]

\* doc of sed2/experiments/copasi_tellurium_comparison.py
Sed2ComparisonState(concentrations, counts) ==
    [species_concentrations |-> concentrations,
     species_counts |-> counts,
     tellurium_step |->
        [type |-> "step", address |-> "local:TelluriumUTCStep",
         config |-> ComparisonConfig,
         inputs |-> [species_concentrations |-> <<"species_concentrations">>,
                     species_counts |-> <<"species_counts">>],
         outputs |-> [result |-> <<"results", "tellurium">>]],
     copasi_step |->
        [type |-> "step", address |-> "local:CopasiUTCStep",
         config |-> ComparisonConfig,
         inputs |-> [species_concentrations |-> <<"species_concentrations">>,
                     species_counts |-> <<"species_counts">>],
         outputs |-> [result |-> <<"results", "copasi">>]],
     comparison |-> ComparisonNode]

(***************************************************************************)
(* The tables the engine may hand TelluriumUTCStep.update                  *)
(***************************************************************************)
\* timeCourseSelections of the RoadRunner object: the default, the time
\* column in another place, amounts instead of concentrations
SampleSelections ==
    { DefaultSelections,
      << <<"[", "S1", "]">>, STR_time, <<"[", "S2", "]">> >>,
      << <<"[", "S1", "]">>, <<"[", "S2", "]">>, STR_time >>,
      << STR_time, <<"S1">>, <<"S2">> >> }

\* a TelluriumUTCStep constructed on the model with species S1, S2, its
\* RoadRunner object having these selections
StepWithSelections(config, selections) ==
    [Constructed("TelluriumUTCStep", config) EXCEPT !.rr.selections = selections]

\* a TelluriumUTCStep constructed on a model one of whose species has the id
\* "time": the default selections are time, [time], [S2]
StepWithSpeciesNamedTime(config) ==
    [Constructed("TelluriumUTCStep", config) EXCEPT
        !.species_ids = <<"time", "S2">>,
        !.rr = [values |-> [sid \in {"time", "S2"} |-> IF sid = "time" THEN 0 ELSE 1],
                selections |-> <<STR_time, <<"[", "time", "]">>, <<"[", "S2", "]">>>>]]

\* the configs of a step that constructs
GoodConfigs ==
    { config \in SampleConfigs :
        ModelLoads(config.model_source) /\ config.n_points >= 2 }

(***************************************************************************)
(* CompareResults and the Composite (spec 4.4, 4.5): their code is not in  *)
(* the source tree, the documents that use them are                        *)
(***************************************************************************)
\* inputs() and outputs() of CompareResults
CompareResultsInputs == [results |-> "map[numeric_result]"]
CompareResultsOutputs == [comparison |-> "any"]

\* the declared ports of any registered class
DeclaredInputs(cls) == IF cls = "CompareResults" THEN CompareResultsInputs ELSE Inputs(cls)
DeclaredOutputs(cls) == IF cls = "CompareResults" THEN CompareResultsOutputs ELSE Outputs(cls)

\* CompareResults.update: a report over the engines of `results`, which must
\* be two at least
CompareResultsUpdate(inputs) ==
    IF Cardinality(DOMAIN inputs.results) < 2
    THEN Raise("InsufficientResultsError")
    ELSE Return([comparison |-> [engines |-> DOMAIN inputs.results]])

\* the value of the state tree at a path, the zero value where there is none
TreeGet(t, path) ==
    IF path[1] \notin DOMAIN t THEN EmptyMap
    ELSE IF Len(path) = 1 THEN t[path[1]]
    ELSE IF path[2] \in DOMAIN t[path[1]] THEN t[path[1]][path[2]]
    ELSE EmptyMap

\* the state tree with the value at a path replaced
TreeSet(t, path, v) ==
    IF Len(path) = 1 THEN (path[1] :> v) @@ t
    ELSE (path[1] :> ((path[2] :> v) @@ TreeGet(t, <<path[1]>>))) @@ t

RECURSIVE WriteOutputs(_, _, _, _)
\* the returned values written at the output paths, for the ports that are
\* both returned and wired
WriteOutputs(t, wires, value, ports) ==
    IF ports = {} THEN t
    ELSE LET port == CHOOSE q \in ports : TRUE
         IN  WriteOutputs(TreeSet(t, wires[port], value[port]), wires, value,
                          ports \ {port})

\* the keys of a document state that hold a StepSpec
StepKeys(state) ==
    { k \in DOMAIN state : "type" \in DOMAIN state[k] /\ state[k].type = "step" }

\* a StepSpec wires a port its class does not declare
WiresUndeclared(spec) ==
    \/ ~(DOMAIN spec.inputs \subseteq DOMAIN DeclaredInputs(Registry[spec.address]))
    \/ ~(DOMAIN spec.outputs \subseteq DOMAIN DeclaredOutputs(Registry[spec.address]))

\* path p is q or lies above it
IsPrefix(p, q) == Len(p) <= Len(q) /\ SubSeq(q, 1, Len(p)) = p

\* the steps that write at or under an input path of step k
Upstream(state, k) ==
    { w \in StepKeys(state) \ {k} :
        \E i \in DOMAIN state[k].inputs, o \in DOMAIN state[w].outputs :
            IsPrefix(state[k].inputs[i], state[w].outputs[o]) }

\* what a step is handed: for each declared input port the value at the path
\* it is wired to, the zero value when it is not wired
HandedInputs(t, spec) ==
    [port \in DOMAIN DeclaredInputs(Registry[spec.address]) |->
        IF port \in DOMAIN spec.inputs THEN TreeGet(t, spec.inputs[port]) ELSE EmptyMap]

\* the seeds a comparison document may carry
SampleSeeds ==
    [species_counts : MapsOver({"S1", "X9"}), species_concentrations : MapsOver({"S2"})]

\* the comparison documents
SampleComparisonDocuments ==
    { ComparisonState(seed.species_concentrations, seed.species_counts) : seed \in SampleSeeds }
    \cup
    { Sed2ComparisonState(seed.species_concentrations, seed.species_counts) : seed \in SampleSeeds }

\* Composite(document, core): with a port wired that the step does not
\* declare, construction fails (strict) or goes on without it; the steps
\* are instantiated and the tree is seeded with the literal values
ConstructComposite ==
    /\ composite.state = "none"
    /\ LET state == composite.document
           instances == { Registry[state[k].address] : k \in StepKeys(state) } \cap Adapters
           built == [a \in Adapters |->
                        IF a \in instances
                        THEN Constructed(a, state[CHOOSE k \in StepKeys(state) :
                                                    Registry[state[k].address] = a].config)
                        ELSE step[a]]
       IN  IF composite.strict /\ \E k \in StepKeys(state) : WiresUndeclared(state[k])
           THEN /\ composite' = [composite EXCEPT !.state = "Failed",
                                                  !.error = "CompositionError"]
                /\ UNCHANGED <<step, tree>>
           ELSE /\ composite' = [composite EXCEPT !.state = "Built"]
                /\ step' = built
                /\ tree' = [k \in DOMAIN state \ StepKeys(state) |-> state[k]]
    /\ UNCHANGED <<store, exceptComposite>>

\* one invocation of sim.run(0): a step all of whose upstream steps have run
\* is handed the values at its input paths, and what it returns is written
\* at its output paths; a step that raises ends the run
InvokeStep(k) ==
    /\ composite.state \in {"Built", "Running"}
    /\ k \in StepKeys(composite.document)
    /\ \A i \in 1..Len(composite.invocations) : composite.invocations[i].name # k
    /\ \A w \in Upstream(composite.document, k) :
            \E i \in 1..Len(composite.invocations) : composite.invocations[i].name = w
    /\ LET spec == composite.document[k]
           cls == Registry[spec.address]
           handed == HandedInputs(tree, spec)
           updated == IF cls = "TelluriumUTCStep" THEN TelluriumUTCUpdate(step[cls], handed)
                      ELSE IF cls = "CopasiUTCStep" THEN CopasiUpdate(step[cls], handed)
                      ELSE NewStep(cls)
           out == IF cls = "CompareResults" THEN CompareResultsUpdate(handed)
                  ELSE updated.out
           invocation == [name |-> k, inputs |-> handed,
                          at_paths |-> [port \in DOMAIN spec.inputs |->
                                           TreeGet(tree, spec.inputs[port])]]
           invocations == Append(composite.invocations, invocation)
       IN  /\ step' = IF cls \in Adapters THEN [step EXCEPT ![cls] = updated] ELSE step
           /\ store' = handed
           /\ IF out.kind = "raise"
              THEN /\ composite' = [composite EXCEPT !.state = "Failed",
                                                     !.error = out.value,
                                                     !.invocations = invocations]
                   /\ UNCHANGED tree
              ELSE /\ composite' =
                        [composite EXCEPT
                            !.state = IF Len(invocations) =
                                             Cardinality(StepKeys(composite.document))
                                      THEN "Completed" ELSE "Running",
                            !.invocations = invocations]
                   /\ tree' = WriteOutputs(tree, spec.outputs, out.value,
                                           DOMAIN out.value \cap DOMAIN spec.outputs)
    /\ UNCHANGED exceptComposite

\* sim.read_bridge(): the bridge output 'result' is wired to comparison_result
ReadBridge(t) == TreeGet(t, <<"comparison_result">>)

(***************************************************************************)
(* Specifications                                                          *)
(***************************************************************************)
\* run_biomodels before it is called
NoBatch == [ids |-> <<>>, meta |-> <<>>]

\* make_biomodel_document not called
NoDocumentArgs ==
    [biomodel_id |-> "", sbml_path |-> <<>>, utc |-> NoSettings, steps |-> <<>>]

\* no Composite constructed
NoComposite == [state |-> "none"]

\* no step constructed yet
NoSteps == [a \in Adapters |-> NewStep(a)]

\* resolve_sbml_source_from_sedml called once, on any arguments and disk
InitResolve ==
    /\ rs_in \in ResolveArgs
    /\ rs_out = Pending
    /\ ex_sims = <<>> /\ ex_out = Pending
    /\ rb_in = NoBatch /\ rb_pc = "idle" /\ rb_i = 1 /\ loaded = <<>>
    /\ disk = {Cwd} /\ documents = <<>> /\ rb_error = ""
    /\ step = NoSteps /\ store = <<>>
    /\ mp_in = <<>> /\ mp_out = Pending /\ mp_again = Pending
    /\ md_in = NoDocumentArgs /\ md_out = Pending
    /\ tree = <<>> /\ composite = NoComposite

NextResolve == Resolve

SpecResolve == InitResolve /\ [][NextResolve]_vars

\* extract_first_uniform_time_course called once, on any document
InitExtract ==
    /\ ex_sims \in SeqsUpTo(SampleSims, MaxSims)
    /\ ex_out = Pending
    /\ rs_in = NoResolveArgs /\ rs_out = Pending
    /\ rb_in = NoBatch /\ rb_pc = "idle" /\ rb_i = 1 /\ loaded = <<>>
    /\ disk = {Cwd} /\ documents = <<>> /\ rb_error = ""
    /\ step = NoSteps /\ store = <<>>
    /\ mp_in = <<>> /\ mp_out = Pending /\ mp_again = Pending
    /\ md_in = NoDocumentArgs /\ md_out = Pending
    /\ tree = <<>> /\ composite = NoComposite

NextExtract == Extract

SpecExtract == InitExtract /\ [][NextExtract]_vars

\* run_biomodels over the first number_of_models identifiers
InitBatch ==
    /\ rb_in \in { b \in BatchInputs : DOMAIN b.meta = { b.ids[k] : k \in 1..Len(b.ids) } }
    /\ rb_pc = "loop"
    /\ rb_i = 1
    /\ loaded = <<>>
    /\ disk = {Cwd}
    /\ documents = <<>>
    /\ rb_error = ""
    /\ rs_in = NoResolveArgs /\ rs_out = Pending
    /\ ex_sims = <<>> /\ ex_out = Pending
    /\ step = NoSteps /\ store = <<>>
    /\ mp_in = <<>> /\ mp_out = Pending /\ mp_again = Pending
    /\ md_in = NoDocumentArgs /\ md_out = Pending
    /\ tree = <<>> /\ composite = NoComposite

NextBatch == LoadAndWrite \/ LoadRaises \/ ReturnLoaded

SpecBatch == InitBatch /\ [][NextBatch]_vars

\* model_path_resolution called on any reference, then on its own result
InitPath ==
    /\ mp_in \in SampleReferences
    /\ mp_out = Pending
    /\ mp_again = Pending
    /\ rs_in = NoResolveArgs /\ rs_out = Pending
    /\ ex_sims = <<>> /\ ex_out = Pending
    /\ rb_in = NoBatch /\ rb_pc = "idle" /\ rb_i = 1 /\ loaded = <<>>
    /\ disk = {Cwd} /\ documents = <<>> /\ rb_error = ""
    /\ step = NoSteps /\ store = <<>>
    /\ md_in = NoDocumentArgs /\ md_out = Pending
    /\ tree = <<>> /\ composite = NoComposite

NextPath == ResolvePath \/ ResolvePathAgain

SpecPath == InitPath /\ [][NextPath]_vars

\* make_biomodel_document called once, on any arguments
InitDocument ==
    /\ md_in \in DocumentArgs
    /\ md_out = Pending
    /\ rs_in = NoResolveArgs /\ rs_out = Pending
    /\ ex_sims = <<>> /\ ex_out = Pending
    /\ rb_in = NoBatch /\ rb_pc = "idle" /\ rb_i = 1 /\ loaded = <<>>
    /\ disk = {Cwd} /\ documents = <<>> /\ rb_error = ""
    /\ step = NoSteps /\ store = <<>>
    /\ mp_in = <<>> /\ mp_out = Pending /\ mp_again = Pending
    /\ tree = <<>> /\ composite = NoComposite

NextDocument == MakeDocument

SpecDocument == InitDocument /\ [][NextDocument]_vars

\* a run of a comparison document
InitComposite ==
    /\ composite \in [state : {"none"}, document : SampleComparisonDocuments,
                       strict : BOOLEAN, invocations : {<<>>}, error : {""}]
    /\ tree = <<>>
    /\ step = NoSteps /\ store = <<>>
    /\ rs_in = NoResolveArgs /\ rs_out = Pending
    /\ ex_sims = <<>> /\ ex_out = Pending
    /\ rb_in = NoBatch /\ rb_pc = "idle" /\ rb_i = 1 /\ loaded = <<>>
    /\ disk = {Cwd} /\ documents = <<>> /\ rb_error = ""
    /\ mp_in = <<>> /\ mp_out = Pending /\ mp_again = Pending
    /\ md_in = NoDocumentArgs /\ md_out = Pending

NextComposite ==
    \/ ConstructComposite
    \/ \E k \in {"tellurium_step", "copasi_step", "comparison"} : InvokeStep(k)

SpecComposite == InitComposite /\ [][NextComposite]_vars

\* one TelluriumUTCStep over any of the engine's tables, updated repeatedly
InitTable ==
    /\ step \in { [NoSteps EXCEPT !["TelluriumUTCStep"] = st] :
                    st \in { StepWithSelections(config, selections) :
                                config \in GoodConfigs, selections \in SampleSelections }
                           \cup { StepWithSpeciesNamedTime(config) : config \in GoodConfigs } }
    /\ store = <<>>
    /\ rs_in = NoResolveArgs /\ rs_out = Pending
    /\ ex_sims = <<>> /\ ex_out = Pending
    /\ rb_in = NoBatch /\ rb_pc = "idle" /\ rb_i = 1 /\ loaded = <<>>
    /\ disk = {Cwd} /\ documents = <<>> /\ rb_error = ""
    /\ mp_in = <<>> /\ mp_out = Pending /\ mp_again = Pending
    /\ md_in = NoDocumentArgs /\ md_out = Pending
    /\ tree = <<>> /\ composite = NoComposite

NextTable == \E inputs \in RepeatInputs : UpdateUTC(inputs)

SpecTable == InitTable /\ [][NextTable]_vars

\* one TelluriumUTCStep: constructed with any config, then updated repeatedly
InitUTC ==
    /\ step = NoSteps
    /\ store = <<>>
    /\ rs_in = NoResolveArgs /\ rs_out = Pending
    /\ ex_sims = <<>> /\ ex_out = Pending
    /\ rb_in = NoBatch /\ rb_pc = "idle" /\ rb_i = 1 /\ loaded = <<>>
    /\ disk = {Cwd} /\ documents = <<>> /\ rb_error = ""
    /\ mp_in = <<>> /\ mp_out = Pending /\ mp_again = Pending
    /\ md_in = NoDocumentArgs /\ md_out = Pending
    /\ tree = <<>> /\ composite = NoComposite

NextUTC ==
    \/ \E config \in SampleConfigs : ConstructUTC(config)
    \/ \E inputs \in RepeatInputs : UpdateUTC(inputs)

SpecUTC == InitUTC /\ [][NextUTC]_vars

\* the Tellurium steps: update before and after their initialize has run
InitLifecycle ==
    /\ step = NoSteps
    /\ store = <<>>
    /\ rs_in = NoResolveArgs /\ rs_out = Pending
    /\ ex_sims = <<>> /\ ex_out = Pending
    /\ rb_in = NoBatch /\ rb_pc = "idle" /\ rb_i = 1 /\ loaded = <<>>
    /\ disk = {Cwd} /\ documents = <<>> /\ rb_error = ""
    /\ mp_in = <<>> /\ mp_out = Pending /\ mp_again = Pending
    /\ md_in = NoDocumentArgs /\ md_out = Pending
    /\ tree = <<>> /\ composite = NoComposite

NextLifecycle ==
    \/ \E cls \in {"TelluriumUTCStep", "TelluriumSteadyStateStep"}, inputs \in LifecycleInputs :
            UpdateUninitialized(cls, inputs)
    \/ \E config \in SampleConfigs : ConstructUTC(config)
    \/ \E config \in SampleConfigs : ConstructSteadyState(config)
    \/ \E inputs \in LifecycleInputs : UpdateUTC(inputs)
    \/ \E inputs \in LifecycleInputs, converges \in BOOLEAN :
            UpdateSteadyState(inputs, converges)

SpecLifecycle == InitLifecycle /\ [][NextLifecycle]_vars

\* the three adapters constructed on one model and handed the same inputs,
\* as the steps of the comparison document are
InitOverrides ==
    /\ store \in SampleInputs
    /\ step = [a \in Adapters |-> Constructed(a, ComparisonConfig)]
    /\ rs_in = NoResolveArgs /\ rs_out = Pending
    /\ ex_sims = <<>> /\ ex_out = Pending
    /\ rb_in = NoBatch /\ rb_pc = "idle" /\ rb_i = 1 /\ loaded = <<>>
    /\ disk = {Cwd} /\ documents = <<>> /\ rb_error = ""
    /\ mp_in = <<>> /\ mp_out = Pending /\ mp_again = Pending
    /\ md_in = NoDocumentArgs /\ md_out = Pending
    /\ tree = <<>> /\ composite = NoComposite

NextOverrides ==
    \/ UpdateUTC(store)
    \/ \E converges \in BOOLEAN : UpdateSteadyState(store, converges)
    \/ UpdateCopasi(store)

SpecOverrides == InitOverrides /\ [][NextOverrides]_vars


(***************************************************************************)
(* Claims on the overrides (SpecOverrides: every call is handed `store`)   *)
(***************************************************************************)
TelluriumAdapters == {"TelluriumUTCStep", "TelluriumSteadyStateStep"}

Counts == Get(store, "species_counts")
Concentrations == Get(store, "species_concentrations")

\* C5: in the Tellurium adapters a model species that has a value in both
\* species_counts and species_concentrations is set to its species_counts value.
C5_CountsTakePrecedence ==
    \A a \in TelluriumAdapters :
        step[a].calls > 0 =>
            \A sid \in SpeciesSet \cap DOMAIN Counts \cap DOMAIN Concentrations :
                /\ sid \in DOMAIN step[a].applied
                /\ step[a].applied[sid] = Counts[sid]

\* C5 witness: both Tellurium adapters were handed two different values for
\* S1 and set the one of species_counts
C5_Witness ==
    /\ \A a \in TelluriumAdapters : step[a].calls > 0
    /\ "S1" \in DOMAIN Counts \cap DOMAIN Concentrations
    /\ Counts["S1"] = 2 /\ Concentrations["S1"] = 3
    /\ \A a \in TelluriumAdapters : step[a].applied["S1"] = 2

\* a mapping without the ids the model lacks
KnownOnly(m) == [sid \in DOMAIN m \cap SpeciesSet |-> m[sid]]

\* the inputs without the ids the model lacks
KnownInputs(inputs) == [port \in DOMAIN inputs |-> KnownOnly(inputs[port])]

\* the setValue calls adapter a makes when handed inputs
AppliedBy(a, inputs) ==
    IF a \in TelluriumAdapters
    THEN SetRoadRunnerIncomingValues(LoadedValues, SpeciesSet, inputs).applied
    ELSE CopasiSetInitial(LoadedValues, SpeciesSet, CopasiSpecData(inputs)).applied

\* update left without an exception, the solver's own failure aside
NoCrash(a) ==
    \/ step[a].out.kind = "return"
    \/ step[a].out = Raise("RuntimeError: Tellurium steadyState() failed")

\* C6 (as claimed): in every adapter an id the model lacks sets no value and
\* raises nothing, and the overrides of the model's species are applied as
\* they are without that id in the mappings.
C6_UnknownSpeciesIgnored ==
    \A a \in Adapters :
        step[a].calls > 0 =>
            /\ NoCrash(a)
            /\ DOMAIN step[a].applied \subseteq SpeciesSet
            /\ step[a].applied = AppliedBy(a, KnownInputs(store))

\* C7 (as claimed): handed the same inputs, the adapters override the same
\* species with the same values.
C7_AdaptersApplyAlike ==
    \A a, b \in Adapters :
        (step[a].calls > 0 /\ step[b].calls > 0) => step[a].applied = step[b].applied

(***************************************************************************)
(* Claims on TelluriumUTCStep (SpecUTC)                                    *)
(***************************************************************************)
UTC == step["TelluriumUTCStep"]

FracLess(a, b) == a.num * b.den < b.num * a.den
FracIs(a, n) == a.den > 0 /\ a.num = n * a.den

SpeciesRow(result, r) ==
    [sid \in SpeciesSet |->
        result.values[r][CHOOSE i \in 1..Len(result.columns) : result.columns[i] = <<sid>>]]

NoOverrides(inputs) ==
    Get(inputs, "species_counts") = EmptyMap /\ Get(inputs, "species_concentrations") = EmptyMap

\* C9: when an update call returns, every model species has the value of the
\* final row of that call's time course; and a call with empty override
\* mappings that follows another starts from the final row of the call before.
C9_StatefulContinuation ==
    [][(/\ step'["TelluriumUTCStep"].calls = UTC.calls + 1
        /\ step'["TelluriumUTCStep"].out.kind = "return")
       =>
       LET after == step'["TelluriumUTCStep"]
           result == after.out.value.result
       IN  /\ after.rr.values = SpeciesRow(result, Len(result.values))
           /\ (UTC.calls > 0 /\ UTC.out.kind = "return" /\ NoOverrides(store'))
                => SpeciesRow(result, 1) =
                       SpeciesRow(UTC.out.value.result, Len(UTC.out.value.result.values))
      ]_vars

\* C9 witness: a second call with empty override mappings returned, and the
\* model is at the final row, which differs from the row the call started at
C9_Witness ==
    /\ UTC.calls = 2
    /\ NoOverrides(store)
    /\ UTC.out.kind = "return"
    /\ UTC.config.n_points = 3
    /\ UTC.rr.values = SpeciesRow(UTC.out.value.result, 3)
    /\ UTC.before = SpeciesRow(UTC.out.value.result, 1)
    /\ SpeciesRow(UTC.out.value.result, 2) # UTC.rr.values
    /\ SpeciesRow(UTC.out.value.result, 1) # UTC.rr.values

\* C10: a TelluriumUTCStep whose config has n_points < 2 fails in its
\* constructor with the n_points error and is never updated; with
\* n_points >= 2 (and a model that loads) it is ready and holds the config's
\* time and n_points.
C10_NPointsValidated ==
    UTC.phase # "new" =>
        /\ UTC.config.n_points < 2 =>
              /\ UTC.phase = "failed"
              /\ UTC.calls = 0
              /\ ModelLoads(UTC.config.model_source)
                    => UTC.error = "ValueError: n_points must be >= 2"
        /\ (UTC.config.n_points >= 2 /\ ModelLoads(UTC.config.model_source)) =>
              /\ UTC.phase = "ready"
              /\ UTC.time = UTC.config.time
              /\ UTC.n_points = UTC.config.n_points

\* C10 witness: the constructor was handed n_points = 1 with a model that
\* loads, and failed
C10_Witness ==
    /\ UTC.phase = "failed"
    /\ UTC.config.n_points = 1
    /\ ModelLoads(UTC.config.model_source)

(***************************************************************************)
(* TelluriumSteadyStateStep.update when the solver fails                   *)
(***************************************************************************)
SteadyState == step["TelluriumSteadyStateStep"]

\* C11: when the engine's steady-state solver fails in a call of
\* TelluriumSteadyStateStep.update, the call raises the error of the failed
\* solver and returns no result: no steady_state and no jacobian come out of
\* that call
C11_SolverFailureRaises ==
    SteadyState.solver = "failed" =>
        /\ SteadyState.out.kind = "raise"
        /\ SteadyState.out = Raise("RuntimeError: Tellurium steadyState() failed")

\* a second call whose solver failed after a first one that converged
C11_Witness ==
    /\ SteadyState.calls = 2
    /\ SteadyState.solver = "failed"
    /\ SteadyState.out.kind = "raise"
    /\ SteadyState.before = SteadyValues(LoadedValues)

(***************************************************************************)
(* What update returns against what outputs() declares                     *)
(***************************************************************************)
\* a value has the shape of numeric_result: the three keys, each a list, and
\* every row of values a list
IsNumericResult(v) ==
    /\ DOMAIN v = NumericResult
    /\ DOMAIN v.time = 1..Len(v.time)
    /\ DOMAIN v.columns = 1..Len(v.columns)
    /\ DOMAIN v.values = 1..Len(v.values)
    /\ \A r \in 1..Len(v.values) : DOMAIN v.values[r] = 1..Len(v.values[r])

\* a value validates against a declared type
Validates(type, v) ==
    IF type = "numeric_result" THEN IsNumericResult(v)
    ELSE IF type = "map[numeric_result]" THEN \A k \in DOMAIN v : IsNumericResult(v[k])
    ELSE type = "any"

\* C12: the mapping update returns has exactly the port names outputs()
\* declares and every value has the declared shape; TelluriumUTCStep returns
\* one numeric_result under "result", TelluriumSteadyStateStep returns under
\* "result" a map with "steady_state" and "jacobian", each a numeric_result
C12_OutputsMatchDeclaredPorts ==
    \A a \in Adapters :
        step[a].out.kind = "return" =>
            /\ DOMAIN step[a].out.value = DOMAIN Outputs(a)
            /\ \A port \in DOMAIN Outputs(a) :
                    Validates(Outputs(a)[port], step[a].out.value[port])
            /\ a = "TelluriumUTCStep" =>
                    /\ DOMAIN step[a].out.value = {"result"}
                    /\ IsNumericResult(step[a].out.value.result)
            /\ a = "TelluriumSteadyStateStep" =>
                    /\ DOMAIN step[a].out.value = {"result"}
                    /\ DOMAIN step[a].out.value.result = {"steady_state", "jacobian"}
                    /\ IsNumericResult(step[a].out.value.result.steady_state)
                    /\ IsNumericResult(step[a].out.value.result.jacobian)

\* every step has returned from update, on inputs that carry overrides
C12_Witness ==
    /\ \A a \in Adapters : step[a].out.kind = "return"
    /\ Counts # EmptyMap
    /\ Len(UTC.out.value.result.values) = UTC.n_points

(***************************************************************************)
(* model_path_resolution                                                   *)
(***************************************************************************)
IsUrl(ref) == StartsWithAny(ref, {STR_http, STR_https})

\* the string is an absolute path
IsAbsoluteString(ref) == StartsWith(ref, <<Slash>>)

\* C13, as stated: a reference starting with http:// or https:// is returned
\* unchanged; any other reference is returned as an absolute path, itself
\* when already absolute and under the project root otherwise; applying the
\* function to its own result returns that result
C13_PathResolution ==
    /\ mp_out # Pending =>
            /\ IsUrl(mp_in) => mp_out.value = mp_in
            /\ ~IsUrl(mp_in) =>
                    /\ IsAbsoluteString(mp_out.value)
                    /\ IsAbsoluteString(mp_in) => mp_out.value = mp_in
                    /\ ~IsAbsoluteString(mp_in) =>
                            StartsWith(mp_out.value, PathStr(ProjectRoot))
    /\ mp_again # Pending => mp_again.value = mp_out.value

\* C13, amended: as above, an absolute reference being returned as the same
\* path in pathlib's spelling (repeated and trailing separators and "."
\* components removed) instead of character for character
C13_PathResolutionNormalised ==
    /\ mp_out # Pending =>
            /\ IsUrl(mp_in) => mp_out.value = mp_in
            /\ ~IsUrl(mp_in) =>
                    /\ IsAbsoluteString(mp_out.value)
                    /\ IsAbsoluteString(mp_in) =>
                            /\ Path(mp_out.value) = Path(mp_in)
                            /\ mp_out.value = PathStr(Path(mp_in))
                    /\ ~IsAbsoluteString(mp_in) =>
                            StartsWith(mp_out.value, PathStr(ProjectRoot))
    /\ mp_again # Pending => mp_again.value = mp_out.value

\* a relative reference that needed normalising, resolved twice
C13_Witness ==
    /\ mp_in = <<".", Slash, "m", Slash, Slash>>
    /\ mp_out # Pending
    /\ mp_out.value # PathStr(ProjectRoot) \o <<Slash>> \o mp_in
    /\ mp_again # Pending
    /\ mp_again.value = mp_out.value

(***************************************************************************)
(* load_biomodel: the temporary and the stable directory                   *)
(***************************************************************************)
\* os.path.abspath(os.path.join("models", biomodel_id))
StableDir(biomodel_id) == AbsPath(PathJoin(<<"models">>, <<biomodel_id>>))

\* the path lies in directory d
LiesIn(p, d) == StartsWith(p, d \o <<Slash>>)

\* the disk at the end of the with block of the load that gave this result
DiskInBlock(result) ==
    LET entry == rb_in.meta[result.biomodel_id]
        entry_files == IterEntryFiles(entry)
        tmp == TmpDir(result.biomodel_id)
    IN  LoadInTmp(result.biomodel_id, entry, FindFirstSedml(entry_files),
                  FindFirstSbml(entry_files), tmp, {Cwd, tmp}).disk

\* C14: for every BiomodelLoadResult load_biomodel returned, the SED-ML and
\* the SBML file were in the stable directory models/<biomodel_id> while the
\* temporary directory still existed, the temporary directory is gone once
\* load_biomodel has returned, and sbml_path and sedml_path lie in the stable
\* directory and not in the temporary one
C14_ScopedAcquisition ==
    \A k \in 1..Len(loaded) :
        LET result == loaded[k]
            tmp == TmpDir(result.biomodel_id)
            stable_dir == StableDir(result.biomodel_id)
        IN  /\ {tmp, result.sedml_path, result.sbml_path} \subseteq DiskInBlock(result)
            /\ Under(tmp, disk) = {}
            /\ tmp \notin disk
            /\ {stable_dir, result.sedml_path, result.sbml_path} \subseteq disk
            /\ LiesIn(result.sedml_path, stable_dir)
            /\ LiesIn(result.sbml_path, stable_dir)
            /\ ~LiesIn(result.sedml_path, tmp)
            /\ ~LiesIn(result.sbml_path, tmp)

\* two models loaded, the first with its files downloaded into the temporary
\* directory, and run_biomodels has returned
C14_Witness ==
    /\ rb_pc = "done"
    /\ Len(loaded) = 2
    /\ rb_in.meta[loaded[1].biomodel_id].get_file = "bytes"
    /\ loaded[1].sbml_path # loaded[2].sbml_path

C16_OneStepPerEngine ==
    md_out # Pending =>
        LET state == md_out.value.state
            Name(i) == <<md_in.biomodel_id, "_", md_in.steps[i][1]>>
        IN  /\ StepKeys(state) = { Name(i) \o <<"_step">> : i \in 1..Len(md_in.steps) }
            /\ Cardinality(StepKeys(state)) = Len(md_in.steps)
            /\ \A i \in 1..Len(md_in.steps) :
                    LET spec == state[Name(i) \o <<"_step">>]
                    IN  /\ spec.address = md_in.steps[i][2]
                        /\ spec.config.time =
                               md_in.utc.output_end_time - md_in.utc.output_start_time
                        /\ spec.config.n_points = md_in.utc.number_of_points
                        /\ spec.config.model_source = md_in.sbml_path
                        /\ spec.outputs.result = <<"results", Name(i)>>
            /\ \A k1, k2 \in StepKeys(state) :
                    k1 # k2 => state[k1].outputs.result # state[k2].outputs.result

\* a document for three engines and an output window that starts after 0
C16_Witness ==
    /\ md_out # Pending
    /\ Len(md_in.steps) = 3
    /\ md_in.utc.output_start_time = 1
    /\ md_in.utc.output_end_time = 2
    /\ Cardinality(StepKeys(md_out.value.state)) = 3

(***************************************************************************)
(* Wiring against the declared ports                                       *)
(***************************************************************************)
\* the StepSpecs of a document state that address a UTC step
UtcStepKeys(state) ==
    { k \in StepKeys(state) :
        Registry[state[k].address] \in {"TelluriumUTCStep", "CopasiUTCStep"} }

\* every port a StepSpec wires is declared by the class its address resolves
\* to, and every declared input port is wired
WiredAsDeclared(spec) ==
    LET cls == Registry[spec.address]
    IN  /\ DOMAIN spec.inputs \subseteq DOMAIN Inputs(cls)
        /\ DOMAIN spec.outputs \subseteq DOMAIN Outputs(cls)
        /\ DOMAIN Inputs(cls) \subseteq DOMAIN spec.inputs

\* C17: every input and output port name that a document wires for a UTC step
\* (the documents make_biomodel_document builds from make_utc_step_state, and
\* the comparison documents) is declared by inputs()/outputs() of the Step the
\* address resolves to, and every declared input port of that Step is wired
C17_WiringMatchesPorts ==
    md_out # Pending =>
        /\ \A k \in UtcStepKeys(md_out.value.state) :
                WiredAsDeclared(md_out.value.state[k])
        /\ \A k \in UtcStepKeys(ComparisonState(EmptyMap, EmptyMap)) :
                WiredAsDeclared(ComparisonState(EmptyMap, EmptyMap)[k])
        /\ \A k \in UtcStepKeys(Sed2ComparisonState(EmptyMap, EmptyMap)) :
                WiredAsDeclared(Sed2ComparisonState(EmptyMap, EmptyMap)[k])

(***************************************************************************)
(* A run of the comparison document                                        *)
(***************************************************************************)
\* the invocations of a step in the run so far
InvocationsOf(k) ==
    SelectSeq(composite.invocations, LAMBDA inv : inv.name = k)

\* C18: in a run of the comparison document, once the run is over: it has
\* completed; every step invoked was handed, for each input path the document
\* wires for it, the value at that path then; the last invocation of the
\* comparison step was handed under 'results' the results of both
\* tellurium_step and copasi_step; and the value read through the bridge is
\* computed from both engines
C18_ComparisonReadsBothResults ==
    composite.state \in {"Completed", "Failed"} =>
        /\ composite.state = "Completed"
        /\ \A i \in 1..Len(composite.invocations) :
                LET inv == composite.invocations[i]
                IN  \A port \in DOMAIN inv.at_paths :
                        \E q \in DOMAIN inv.inputs : inv.inputs[q] = inv.at_paths[port]
        /\ InvocationsOf("comparison") # <<>>
        /\ LET last == InvocationsOf("comparison")[Len(InvocationsOf("comparison"))]
           IN  {"tellurium", "copasi"} \subseteq DOMAIN last.inputs.results
        /\ "comparison_result" \in DOMAIN tree
        /\ ReadBridge(tree).engines = {"tellurium", "copasi"}

(***************************************************************************)
(* Columns and values of the result against the engine's table             *)
(***************************************************************************)
\* the table the last call of update got from the engine
LastTable ==
    LET species_index == { UTC.species_ids[i] : i \in 1..Len(UTC.species_ids) }
    IN  SimulateCall(UTC, SetRoadRunnerIncomingValues(UTC.before, species_index,
                                                      store).values)

\* the column of the table that holds the time axis
TimeAxis(tc) == CHOOSE c \in 1..Len(tc.colnames) : tc.colnames[c] = STR_time

\* C19: whatever table the engine returned, the result's time is the table's
\* time axis, its columns are the table's other columns (the time axis is not
\* among them), every row of values has len(columns) entries, and
\* values[r][i] is the table's entry of row r for the variable columns[i]
C19_ColumnsAlignWithValues ==
    (UTC.calls > 0 /\ UTC.out.kind = "return") =>
        LET result == UTC.out.value.result
            tc == LastTable
            others == (1..Len(tc.colnames)) \ {TimeAxis(tc)}
        IN  /\ Len(result.time) = Len(tc.rows)
            /\ \A r \in 1..Len(tc.rows) :
                    ToString(result.time[r]) = ToString(tc.rows[r][TimeAxis(tc)])
            /\ Len(result.columns) = Cardinality(others)
            /\ { result.columns[i] : i \in 1..Len(result.columns) }
                    = { Strip(tc.colnames[c]) : c \in others }
            /\ \A r \in 1..Len(result.values) :
                    /\ Len(result.values[r]) = Len(result.columns)
                    /\ \A i \in 1..Len(result.columns) :
                            \E c \in others :
                                /\ Strip(tc.colnames[c]) = result.columns[i]
                                /\ ToString(result.values[r][i]) = ToString(tc.rows[r][c])

====
